---- MODULE Spec2Model ----
(***************************************************************************)
(* Model of the Phobos rover controller                                    *)
(* (controllers/phobos_rover_v02_controller/phobos_rover_v02_controller.py)*)
(*                                                                         *)
(* Two processes: the control loop `run` (handle_mech, handle_cam_req,     *)
(* step) and the camera process `cam_process`.  They share one duplex      *)
(* multiprocessing Pipe.  Each owns one zmq.REP socket.                    *)
(***************************************************************************)
EXTENDS Integers, Sequences, FiniteSets, TLC

(***************************************************************************)
(* Bound of the environment: how many messages the clients send in all,    *)
(* on the two sockets together.                                            *)
(***************************************************************************)
MaxMsgs == 3

(***************************************************************************)
(* Velocity setpoints the drive motors may have when the controller        *)
(* fetches them (the simulated world decides).                             *)
(***************************************************************************)
InitVels == {0, 2}

MotorIdx == 0..5

(***************************************************************************)
(* Actuator ids.  An id is the pair <<first three characters, rest>>, so   *)
(* that act_id[:3] is the first component.                                 *)
(***************************************************************************)
Group(act_id) == act_id[1]

Wheels == <<"FL", "ML", "RL", "FR", "MR", "RR">>

ArmJoints == <<"Base", "Shoulder", "Elbow", "Wrist", "Grabber">>

KnownActIds ==
    {<<"Drv", Wheels[i]>> : i \in 1..6} \cup
    {<<"Str", Wheels[i]>> : i \in 1..6} \cup
    {<<"Arm", ArmJoints[i]>> : i \in 1..5}

act_id_motor_group_index_map ==
    [id \in KnownActIds |->
        IF id[1] = "Arm"
        THEN (CHOOSE i \in 1..5 : ArmJoints[i] = id[2]) - 1
        ELSE (CHOOSE i \in 1..6 : Wheels[i] = id[2]) - 1]

(***************************************************************************)
(* Command payloads a client can put on the mechanisms socket.             *)
(*   garbage : text that is not JSON                                       *)
(*   null    : the JSON text null                                          *)
(*   scalar  : JSON that is neither null nor an object (a number)          *)
(*   dict    : a JSON object; has_pos / has_spd say whether the keys       *)
(*             pos_rad / speed_rads are present, pos / spd list their      *)
(*             items in order as <<act_id, value>>.                        *)
(***************************************************************************)
Payload(k, hp, p, hs, s) ==
    [kind |-> k, has_pos |-> hp, pos |-> p, has_spd |-> hs, spd |-> s]

None == Payload("none", FALSE, <<>>, FALSE, <<>>)

Dems(hp, p, hs, s) == Payload("dict", hp, p, hs, s)

MechMsgs ==
    { Payload("garbage", FALSE, <<>>, FALSE, <<>>),
      Payload("null", FALSE, <<>>, FALSE, <<>>),
      \* {"speed_rads": {"DrvFL": 2.0}}
      Dems(FALSE, <<>>, TRUE, << <<<<"Drv", "FL">>, 2>> >>),
      \* {"pos_rad": {"StrML": 1.0}}
      Dems(TRUE, << <<<<"Str", "ML">>, 1>> >>, FALSE, <<>>),
      \* {"pos_rad": {"StrFL": 1.0, "DrvML": 1.0, "ArmBase": 1.0, "Foo": 1.0},
      \*  "speed_rads": {"DrvFL": 2.0, "StrRL": 2.0, "DrvRR": 1.0}}
      Dems(TRUE, << <<<<"Str", "FL">>, 1>>, <<<<"Drv", "ML">>, 1>>,
                    <<<<"Arm", "Base">>, 1>>, <<<<"Foo", "">>, 1>> >>,
           TRUE, << <<<<"Drv", "FL">>, 2>>, <<<<"Str", "RL">>, 2>>,
                    <<<<"Drv", "RR">>, 1>> >>),
      \* {"pos_rad": {"StrFR": 2.0, "StrXX": 1.0}, "speed_rads": {"DrvRL": 2.0}}
      Dems(TRUE, << <<<<"Str", "FR">>, 2>>, <<<<"Str", "XX">>, 1>> >>,
           TRUE, << <<<<"Drv", "RL">>, 2>> >>),
      \* {"pos_rad": {}, "speed_rads": {"DrvFR": 2.0, "DrvXX": 1.0}}
      Dems(TRUE, <<>>, TRUE,
           << <<<<"Drv", "FR">>, 2>>, <<<<"Drv", "XX">>, 1>> >>) }

(***************************************************************************)
(* json.loads on a payload: raises on garbage, otherwise the value         *)
(* (None for null).                                                        *)
(***************************************************************************)
JsonLoads(payload) ==
    CASE payload.kind = "garbage" -> [raised |-> TRUE, val |-> None]
      [] payload.kind = "null" -> [raised |-> FALSE, val |-> None]
      [] OTHER -> [raised |-> FALSE, val |-> payload]

(***************************************************************************)
(* Camera payloads a client can put on the camera socket: same kinds as    *)
(* above; a dict may lack the key cameras or the key format.  A format is  *)
(* a bare name ("str") or a mapping whose first key is the name ("map").   *)
(***************************************************************************)
Format(shape, name) == [shape |-> shape, name |-> name]

NoFormat == Format("none", "")

CamPayload(k, hc, c, hf, f) ==
    [kind |-> k, has_cams |-> hc, cameras |-> c, has_fmt |-> hf, format |-> f]

CamNone == CamPayload("none", FALSE, <<>>, FALSE, NoFormat)

CamReq(hc, c, hf, f) == CamPayload("dict", hc, c, hf, f)

CamMsgs ==
    { CamPayload("garbage", FALSE, <<>>, FALSE, NoFormat),
      \* {"cameras": ["LeftNav"], "format": "png"}
      CamReq(TRUE, <<"LeftNav">>, TRUE, Format("str", "png")),
      \* {"cameras": ["LeftNav", "RightNav"], "format": {"png": {}}}
      CamReq(TRUE, <<"LeftNav", "RightNav">>, TRUE, Format("map", "png")),
      \* {"cameras": ["Nope"], "format": "png"}
      CamReq(TRUE, <<"Nope">>, TRUE, Format("str", "png")),
      \* {"cameras": ["RightNav"], "format": "bogus"}
      CamReq(TRUE, <<"RightNav">>, TRUE, Format("str", "bogus")),
      \* {"cameras": ["LeftNav"]}
      CamReq(TRUE, <<"LeftNav">>, FALSE, NoFormat) }

\* Cameras fetched by init_eqpt with an image interface.
Cameras == {"LeftNav", "RightNav"}

\* Format names the image library can write.
SupportedFormats == {"png", "jpeg"}

CamJsonLoads(payload) ==
    CASE payload.kind = "garbage" -> [raised |-> TRUE, val |-> CamNone]
      [] payload.kind = "null" -> [raised |-> FALSE, val |-> CamNone]
      [] OTHER -> [raised |-> FALSE, val |-> payload]

(***************************************************************************)
(* Messages on the pipe towards the camera process: the frame bundle       *)
(* (a dict) and the string 'STOP'.                                         *)
(***************************************************************************)
PipeMsg(type, text, f, c) ==
    [type |-> type, text |-> text, format |-> f, cams |-> c]

Bundle(f, c) == PipeMsg("dict", "", f, c)

StopMsg == PipeMsg("str", "STOP", NoFormat, <<>>)

VARIABLES
    ctrl_pc,        \* position of the control process in run
    run_controller, \* run's flag
    mech_dems,      \* handle_mech's local: the decoded demand, None if none
    stop,           \* handle_mech's local flag
    str_pos,        \* position setpoint of each steer motor
    drv_pos,        \* position setpoint of each drive motor ("inf" = unbounded)
    drv_vel,        \* velocity setpoint of each drive motor
    mech_in,        \* client messages queued at the mechanisms REP socket
    mech_sending,   \* the mechanisms REP socket has received and owes a reply
    mech_out,       \* replies sent on the mechanisms socket
    cmds_sent,      \* number of commands the clients have sent
    relay_pc,       \* position of the camera process in cam_process
    handling_req,   \* cam_process's flag
    cam_in,         \* client messages queued at the camera REP socket
    cam_sending,    \* the camera REP socket has received and owes a reply
    cam_out,        \* replies sent on the camera socket
    cams_sent,      \* number of camera requests the clients have sent
    cam_fwd,        \* number of requests cam_process has sent to the main process
    pipe_to_ctrl,   \* pipe, camera process -> main process
    pipe_to_relay,  \* pipe, main process -> camera process
    pipe_closed     \* the camera process has closed its end of the pipe

mechVars == <<mech_dems, stop, mech_in, mech_sending, mech_out, cmds_sent>>

motorVars == <<str_pos, drv_pos, drv_vel>>

camSockVars == <<cam_in, cam_sending, cam_out, cams_sent>>

relayVars == <<relay_pc, handling_req, cam_fwd, pipe_closed>>

pipeVars == <<pipe_to_ctrl, pipe_to_relay>>

vars == <<ctrl_pc, run_controller, mechVars, motorVars, camSockVars,
          relayVars, pipeVars>>

Init ==
    /\ ctrl_pc = "handle_mech"
    /\ run_controller = TRUE
    /\ mech_dems = None
    /\ stop = FALSE
    /\ str_pos = [i \in MotorIdx |-> 0]
    /\ drv_pos = [i \in MotorIdx |-> "zero"]
    /\ \E v \in InitVels : drv_vel = [i \in MotorIdx |-> v]
    /\ mech_in = <<>>
    /\ mech_sending = FALSE
    /\ mech_out = <<>>
    /\ cmds_sent = 0
    /\ relay_pc = "poll"
    /\ handling_req = FALSE
    /\ cam_in = <<>>
    /\ cam_sending = FALSE
    /\ cam_out = <<>>
    /\ cams_sent = 0
    /\ cam_fwd = 0
    /\ pipe_to_ctrl = <<>>
    /\ pipe_to_relay = <<>>
    /\ pipe_closed = FALSE

(***************************************************************************)
(* Clients.                                                                *)
(***************************************************************************)
ClientSendCmd ==
    /\ cmds_sent + cams_sent < MaxMsgs
    /\ \E m \in MechMsgs : mech_in' = Append(mech_in, m)
    /\ cmds_sent' = cmds_sent + 1
    /\ UNCHANGED <<ctrl_pc, run_controller, mech_dems, stop, mech_sending,
                   mech_out, motorVars, camSockVars, relayVars, pipeVars>>

ClientSendCam ==
    /\ cmds_sent + cams_sent < MaxMsgs
    /\ \E m \in CamMsgs : cam_in' = Append(cam_in, m)
    /\ cams_sent' = cams_sent + 1
    /\ UNCHANGED <<ctrl_pc, run_controller, mechVars, motorVars, cam_sending,
                   cam_out, relayVars, pipeVars>>

(***************************************************************************)
(* zmq.REP recv_string(flags=NOBLOCK) followed by json.loads, as the two   *)
(* try blocks use it.  outcome:                                            *)
(*   "again" : zmq.Again, nothing pending                                  *)
(*   "zmq"   : zmq.ZMQError: a REP socket that owes a reply refuses to     *)
(*             receive                                                     *)
(*   "exc"   : the message was received and decoding raised                *)
(*   "ok"    : the message was received and decoded to val                 *)
(***************************************************************************)
RecvOutcome(sending, pending, raises) ==
    IF sending THEN "zmq"
    ELSE IF ~pending THEN "again"
    ELSE IF raises THEN "exc"
    ELSE "ok"

Received(outcome) == outcome \in {"exc", "ok"}

(***************************************************************************)
(* PhobosRoverController.stop                                              *)
(***************************************************************************)
Stop_FirstOnly(vel) == [vel EXCEPT ![0] = 0]

Stop(vel) == [i \in MotorIdx |-> 0]

(***************************************************************************)
(* PhobosRoverController.actuate_mech_dems.  The result carries the        *)
(* setpoints as the call leaves them and whether it raised.                *)
(***************************************************************************)
RECURSIVE ActuatePos(_, _)
ActuatePos(items, sp) ==
    IF items = <<>> THEN [raised |-> FALSE, str |-> sp]
    ELSE LET act_id == items[1][1]
             position_rad == items[1][2]
         IN  IF Group(act_id) = "Str"
             THEN IF act_id \in DOMAIN act_id_motor_group_index_map
                  THEN ActuatePos(Tail(items),
                         [sp EXCEPT ![act_id_motor_group_index_map[act_id]] =
                                        position_rad])
                  ELSE [raised |-> TRUE, str |-> sp]
             ELSE ActuatePos(Tail(items), sp)

RECURSIVE ActuateSpeed(_, _, _)
ActuateSpeed(items, dp, dv) ==
    IF items = <<>> THEN [raised |-> FALSE, pos |-> dp, vel |-> dv]
    ELSE LET act_id == items[1][1]
             speed_rads == items[1][2]
         IN  IF Group(act_id) = "Drv"
             THEN IF act_id \in DOMAIN act_id_motor_group_index_map
                  THEN LET i == act_id_motor_group_index_map[act_id]
                       IN  ActuateSpeed(Tail(items),
                                        [dp EXCEPT ![i] = "inf"],
                                        [dv EXCEPT ![i] = speed_rads])
                  ELSE [raised |-> TRUE, pos |-> dp, vel |-> dv]
             ELSE ActuateSpeed(Tail(items), dp, dv)

ActuateMechDems(dems, sp, dp, dv) ==
    IF dems.kind # "dict" \/ ~dems.has_pos
    THEN [raised |-> TRUE, str |-> sp, pos |-> dp, vel |-> dv]
    ELSE LET p == ActuatePos(dems.pos, sp)
         IN  IF p.raised \/ ~dems.has_spd
             THEN [raised |-> TRUE, str |-> p.str, pos |-> dp, vel |-> dv]
             ELSE LET s == ActuateSpeed(dems.spd, dp, dv)
                  IN  [raised |-> s.raised, str |-> p.str,
                       pos |-> s.pos, vel |-> s.vel]

(***************************************************************************)
(* The control process: run.                                               *)
(***************************************************************************)

\* The else branch of handle_mech, in statement order: send_string, then
\* actuate_mech_dems.
MechSeq_ActuateFirst == <<"mech_actuate", "mech_send">>

MechSeq == <<"mech_send", "mech_actuate">>

\* Position of run after the statement at position pc of that branch.
AfterMech_DrainAll(pc) ==
    IF pc = MechSeq[1] THEN MechSeq[2] ELSE "handle_mech"

AfterMech(pc) == IF pc = MechSeq[1] THEN MechSeq[2] ELSE "handle_cam_req"

\* What handle_mech returns (its only return statement).
HandleMechResult == TRUE

\* handle_mech from its start to the end of the `if mech_dems is None` branch
\* (where it returns), or to the start of the else branch.
HandleMechRecv ==
    /\ ctrl_pc = "handle_mech"
    /\ LET raises == IF mech_in = <<>> THEN FALSE
                     ELSE JsonLoads(mech_in[1]).raised
           outcome == RecvOutcome(mech_sending, mech_in # <<>>, raises)
           dems == IF outcome = "ok" THEN JsonLoads(mech_in[1]).val ELSE None
       IN  /\ stop' = (outcome \in {"zmq", "exc"})
           /\ mech_in' = IF Received(outcome) THEN Tail(mech_in) ELSE mech_in
           /\ mech_sending' = (mech_sending \/ Received(outcome))
           /\ mech_dems' = dems
           /\ IF dems = None
              THEN /\ drv_vel' = IF stop' THEN Stop(drv_vel) ELSE drv_vel
                   /\ run_controller' = HandleMechResult
                   /\ ctrl_pc' = "handle_cam_req"
              ELSE /\ drv_vel' = drv_vel
                   /\ run_controller' = run_controller
                   /\ ctrl_pc' = MechSeq[1]
    /\ UNCHANGED <<str_pos, drv_pos, mech_out, cmds_sent, camSockVars,
                   relayVars, pipeVars>>

\* mech_rep.send_string('"DemsOk"')
HandleMechSend ==
    /\ ctrl_pc = "mech_send"
    /\ mech_out' = Append(mech_out, "DemsOk")
    /\ mech_sending' = FALSE
    /\ ctrl_pc' = AfterMech("mech_send")
    /\ IF ctrl_pc' = "handle_cam_req"
       THEN mech_dems' = None /\ run_controller' = HandleMechResult
       ELSE UNCHANGED <<mech_dems, run_controller>>
    /\ UNCHANGED <<stop, mech_in, cmds_sent, motorVars,
                   camSockVars, relayVars, pipeVars>>

\* phobos.actuate_mech_dems(mech_dems); an exception it raises ends run.
HandleMechActuate ==
    /\ ctrl_pc = "mech_actuate"
    /\ LET r == ActuateMechDems(mech_dems, str_pos, drv_pos, drv_vel)
       IN  /\ str_pos' = r.str
           /\ drv_pos' = r.pos
           /\ drv_vel' = r.vel
           /\ ctrl_pc' = IF r.raised THEN "crashed" ELSE AfterMech("mech_actuate")
    /\ IF ctrl_pc' = "handle_cam_req"
       THEN mech_dems' = None /\ run_controller' = HandleMechResult
       ELSE UNCHANGED <<mech_dems, run_controller>>
    /\ UNCHANGED <<stop, mech_in, mech_sending, mech_out,
                   cmds_sent, camSockVars, relayVars, pipeVars>>

(***************************************************************************)
(* handle_cam_req: the frame bundle for a request, or the exception the    *)
(* lookups raise (cam_req['format'], cam_req['cameras'],                   *)
(* phobos.cameras[cam_id]).                                                *)
(***************************************************************************)
CamData(cam_req) ==
    IF \/ cam_req.kind # "dict"
       \/ ~cam_req.has_fmt
       \/ ~cam_req.has_cams
       \/ \E i \in 1..Len(cam_req.cameras) : cam_req.cameras[i] \notin Cameras
    THEN [raised |-> TRUE, data |-> Bundle(NoFormat, <<>>)]
    ELSE [raised |-> FALSE, data |-> Bundle(cam_req.format, cam_req.cameras)]

HandleCamReq_SendPerCamera ==
    /\ ctrl_pc = "handle_cam_req"
    /\ IF pipe_to_ctrl = <<>>
       THEN /\ ctrl_pc' = "step"
            /\ UNCHANGED pipeVars
       ELSE LET r == CamData(pipe_to_ctrl[1])
            IN  /\ pipe_to_ctrl' = Tail(pipe_to_ctrl)
                /\ IF r.raised
                   THEN /\ ctrl_pc' = "crashed"
                        /\ UNCHANGED pipe_to_relay
                   ELSE /\ ctrl_pc' = "step"
                        /\ pipe_to_relay' = pipe_to_relay \o
                             [i \in 1..Len(r.data.cams) |->
                                Bundle(r.data.format, <<r.data.cams[i]>>)]
    /\ UNCHANGED <<run_controller, mechVars, motorVars, camSockVars,
                   relayVars>>

HandleCamReq ==
    /\ ctrl_pc = "handle_cam_req"
    /\ IF pipe_to_ctrl = <<>>
       THEN /\ ctrl_pc' = "step"
            /\ UNCHANGED pipeVars
       ELSE LET r == CamData(pipe_to_ctrl[1])
            IN  /\ pipe_to_ctrl' = Tail(pipe_to_ctrl)
                /\ IF r.raised
                   THEN /\ ctrl_pc' = "crashed"
                        /\ UNCHANGED pipe_to_relay
                   ELSE /\ ctrl_pc' = "step"
                        /\ pipe_to_relay' = Append(pipe_to_relay, r.data)
    /\ UNCHANGED <<run_controller, mechVars, motorVars, camSockVars,
                   relayVars>>

\* step(phobos) and the loop test: the simulation host decides.
Step ==
    /\ ctrl_pc = "step"
    /\ \E keep_running \in BOOLEAN :
         /\ run_controller' = keep_running
         /\ ctrl_pc' = IF keep_running THEN "handle_mech" ELSE "send_stop"
    /\ UNCHANGED <<mechVars, motorVars, camSockVars, relayVars, pipeVars>>

\* cam_pipe.send('STOP')
SendStop_Overtakes ==
    /\ ctrl_pc = "send_stop"
    /\ pipe_to_relay' = <<StopMsg>> \o pipe_to_relay
    /\ ctrl_pc' = "join"
    /\ UNCHANGED <<run_controller, mechVars, motorVars, camSockVars,
                   relayVars, pipe_to_ctrl>>

SendStop ==
    /\ ctrl_pc = "send_stop"
    /\ pipe_to_relay' = Append(pipe_to_relay, StopMsg)
    /\ ctrl_pc' = "join"
    /\ UNCHANGED <<run_controller, mechVars, motorVars, camSockVars,
                   relayVars, pipe_to_ctrl>>

RelayExited == relay_pc \in {"done", "crashed"}

\* cam_proc.join() returns once the camera process has exited.
JoinGuard_NoWait == TRUE

JoinGuard == RelayExited

Join ==
    /\ ctrl_pc = "join"
    /\ JoinGuard
    /\ ctrl_pc' = "done"
    /\ UNCHANGED <<run_controller, mechVars, motorVars, camSockVars,
                   relayVars, pipeVars>>

(***************************************************************************)
(* The camera process: cam_process.                                        *)
(***************************************************************************)

\* handle_cam_send: image.save raises on a format it cannot write, and
\* send_string raises on a REP socket that owes no reply.
CamSend(cam_data, sending) ==
    IF \/ Len(cam_data.cams) > 0 /\ cam_data.format.name \notin SupportedFormats
       \/ ~sending
    THEN [raised |-> TRUE, res |-> [cams |-> <<>>, format |-> NoFormat]]
    ELSE [raised |-> FALSE,
          res |-> [cams |-> cam_data.cams, format |-> cam_data.format]]

\* `if isinstance(msg, str): if msg == 'STOP': break`
IsStop_WrongLiteral(msg) == msg.type = "str" /\ msg.text = "stop"

IsStop(msg) == msg.type = "str" /\ msg.text = "STOP"

\* `handling_req = False` after handle_cam_send
HandlingReqAfterSend_NotReset == TRUE

HandlingReqAfterSend == FALSE

\* `if handling_req: continue`
SkipClientRecv_Never(handling) == FALSE

SkipClientRecv(handling) == handling

\* One pass of the loop from the pipe poll to the handling_req test; on STOP
\* the loop is left and the pipe closed.
RelayPoll ==
    /\ relay_pc = "poll"
    /\ IF pipe_to_relay = <<>>
       THEN /\ relay_pc' = IF SkipClientRecv(handling_req) THEN "poll" ELSE "client_recv"
            /\ UNCHANGED <<handling_req, pipe_closed, pipe_to_relay, cam_sending, cam_out>>
       ELSE LET msg == pipe_to_relay[1]
            IN  /\ pipe_to_relay' = Tail(pipe_to_relay)
                /\ IF IsStop(msg)
                   THEN /\ relay_pc' = "done"
                        /\ pipe_closed' = TRUE
                        /\ UNCHANGED <<handling_req, cam_sending, cam_out>>
                   ELSE IF msg.type = "dict"
                   THEN LET r == CamSend(msg, cam_sending)
                        IN  IF r.raised
                            THEN /\ relay_pc' = "crashed"
                                 /\ UNCHANGED <<handling_req, pipe_closed,
                                                cam_sending, cam_out>>
                            ELSE /\ cam_out' = Append(cam_out, r.res)
                                 /\ cam_sending' = FALSE
                                 /\ handling_req' = HandlingReqAfterSend
                                 /\ relay_pc' = IF SkipClientRecv(handling_req')
                                                THEN "poll" ELSE "client_recv"
                                 /\ UNCHANGED pipe_closed
                   ELSE /\ relay_pc' = IF SkipClientRecv(handling_req)
                                       THEN "poll" ELSE "client_recv"
                        /\ UNCHANGED <<handling_req, pipe_closed, cam_sending, cam_out>>
    /\ UNCHANGED <<ctrl_pc, run_controller, mechVars, motorVars, cam_in,
                   cams_sent, cam_fwd, pipe_to_ctrl>>

\* The rest of the pass, with the reply sent as soon as a request is decoded
\* (the way handle_mech acknowledges) and the flag left alone.
RelayClientRecv_AckFirst ==
    /\ relay_pc = "client_recv"
    /\ LET raises == IF cam_in = <<>> THEN FALSE
                     ELSE CamJsonLoads(cam_in[1]).raised
           outcome == RecvOutcome(cam_sending, cam_in # <<>>, raises)
           cam_req == IF outcome = "ok" THEN CamJsonLoads(cam_in[1]).val
                      ELSE CamNone
       IN  /\ cam_in' = IF Received(outcome) THEN Tail(cam_in) ELSE cam_in
           /\ IF cam_req = CamNone
              THEN /\ cam_sending' = (cam_sending \/ Received(outcome))
                   /\ UNCHANGED <<pipe_to_ctrl, cam_fwd, cam_out>>
              ELSE /\ cam_sending' = FALSE
                   /\ cam_out' = Append(cam_out, [cams |-> <<>>, format |-> NoFormat])
                   /\ pipe_to_ctrl' = Append(pipe_to_ctrl, cam_req)
                   /\ cam_fwd' = cam_fwd + 1
    /\ relay_pc' = "poll"
    /\ UNCHANGED <<ctrl_pc, run_controller, mechVars, motorVars, handling_req,
                   cams_sent, pipe_closed, pipe_to_relay>>

\* The rest of the pass: the client receive and the forward to the main process.
RelayClientRecv ==
    /\ relay_pc = "client_recv"
    /\ LET raises == IF cam_in = <<>> THEN FALSE
                     ELSE CamJsonLoads(cam_in[1]).raised
           outcome == RecvOutcome(cam_sending, cam_in # <<>>, raises)
           cam_req == IF outcome = "ok" THEN CamJsonLoads(cam_in[1]).val
                      ELSE CamNone
       IN  /\ cam_in' = IF Received(outcome) THEN Tail(cam_in) ELSE cam_in
           /\ cam_sending' = (cam_sending \/ Received(outcome))
           /\ IF cam_req = CamNone
              THEN UNCHANGED <<pipe_to_ctrl, handling_req, cam_fwd>>
              ELSE /\ pipe_to_ctrl' = Append(pipe_to_ctrl, cam_req)
                   /\ handling_req' = TRUE
                   /\ cam_fwd' = cam_fwd + 1
    /\ relay_pc' = "poll"
    /\ UNCHANGED <<ctrl_pc, run_controller, mechVars, motorVars, cam_out,
                   cams_sent, pipe_closed, pipe_to_relay>>

ControlNext ==
    \/ HandleMechRecv
    \/ HandleMechSend
    \/ HandleMechActuate
    \/ HandleCamReq
    \/ Step
    \/ SendStop
    \/ Join

RelayNext ==
    \/ RelayPoll
    \/ RelayClientRecv

Next ==
    \/ ClientSendCmd
    \/ ClientSendCam
    \/ ControlNext
    \/ RelayNext

Spec == Init /\ [][Next]_vars

\* Each process, while it can run, keeps running.
FairSpec == Spec /\ WF_vars(ControlNext) /\ WF_vars(RelayNext)

(***************************************************************************)
(* The system with camera clients only: no command is ever sent, so        *)
(* handle_mech always finds the command socket empty.                      *)
(***************************************************************************)
ControlNextCam ==
    \/ HandleMechRecv
    \/ HandleCamReq
    \/ Step
    \/ SendStop
    \/ Join

NextCam ==
    \/ ClientSendCam
    \/ ControlNextCam
    \/ RelayNext

CamSpec == Init /\ [][NextCam]_vars

CamFairSpec == CamSpec /\ WF_vars(ControlNextCam) /\ WF_vars(RelayNext)

(***************************************************************************)
(* Derived quantities used by the properties.                              *)
(***************************************************************************)

\* Number of messages the camera socket has handed to cam_process.
CamAccepted == cams_sent - Len(cam_in)

\* Number of messages the mechanisms socket has handed to handle_mech.
MechAccepted == cmds_sent - Len(mech_in)

\* Requests and frame bundles travelling through the pipe.
RECURSIVE Bundles(_)
Bundles(q) == IF q = <<>> THEN 0
              ELSE (IF q[1].type = "dict" THEN 1 ELSE 0) + Bundles(Tail(q))

InFlight == Len(pipe_to_ctrl) + Bundles(pipe_to_relay)

StopSent == ctrl_pc \in {"join", "done"}

ControlTicking == ctrl_pc \in {"handle_mech", "mech_send", "mech_actuate",
                               "handle_cam_req", "step"}

\* A step of run that attempts mech_rep.recv_string.
MechRecvAttempt == ctrl_pc = "handle_mech" /\ ctrl_pc' # "handle_mech"

\* A step of cam_process that attempts cam_rep.recv_string.
CamRecvAttempt == relay_pc = "client_recv" /\ relay_pc' # "client_recv"

(***************************************************************************)
(* C1.  cam_process attempts a receive on the camera socket only when      *)
(* handling_req is false; while handling_req is true no client message is  *)
(* taken from the socket, so a second request stays queued until the       *)
(* reply to the first has been sent.                                       *)
(***************************************************************************)
C1_ClientRecvOnlyWhenIdle ==
    /\ [](relay_pc = "client_recv" => ~handling_req)
    /\ [][CamRecvAttempt => ~handling_req]_vars
    /\ [][handling_req => CamAccepted' = CamAccepted]_vars

\* A second request is queued while the first is awaiting its frames.
C1_Witness ==
    /\ handling_req
    /\ relay_pc = "poll"
    /\ cam_in # <<>>
    /\ cam_out = <<>>

(***************************************************************************)
(* C2.  At most one camera request is in flight through the pipe: a        *)
(* request is forwarded only when every request forwarded before has been  *)
(* replied to and the pipe carries no request and no bundle.               *)
(***************************************************************************)
C2_OneRequestInFlight ==
    /\ [](InFlight <= 1)
    /\ [](cam_fwd - Len(cam_out) \in {0, 1})
    /\ [][cam_fwd' # cam_fwd => (InFlight = 0 /\ cam_fwd = Len(cam_out))]_vars

\* A second request has been forwarded after the first was replied to.
C2_Witness == cam_fwd = 2 /\ Len(cam_out) = 1 /\ InFlight = 1

(***************************************************************************)
(* C3.  Whenever a setpoint changes on behalf of a decoded command, the    *)
(* acknowledgement "DemsOk" for that command has already been sent: the    *)
(* socket owes no reply and the last reply sent is the acknowledgement.    *)
(***************************************************************************)
C3_AckBeforeActuation ==
    [][(mech_dems # None /\ motorVars' # motorVars)
        => (/\ ~mech_sending
            /\ Len(mech_out) = MechAccepted
            /\ mech_out[Len(mech_out)] = "DemsOk")]_vars

\* A command has been acknowledged and then applied.
C3_Witness ==
    /\ Len(mech_out) = 1
    /\ drv_vel[0] = 2
    /\ drv_pos[0] = "inf"
    /\ ctrl_pc = "handle_cam_req"

(***************************************************************************)
(* C4.  Each reply socket strictly alternates receive and send: a receive  *)
(* is attempted only on a socket that owes no reply (also after a message  *)
(* that failed to decode), and a reply is sent only on a socket that owes  *)
(* one.                                                                    *)
(***************************************************************************)
C4_StrictAlternation ==
    [][/\ MechRecvAttempt => ~mech_sending
       /\ CamRecvAttempt => ~cam_sending
       /\ mech_out' # mech_out => mech_sending
       /\ cam_out' # cam_out => cam_sending]_vars

(***************************************************************************)
(* C5.  When handle_mech ends in a decode failure or a transport error,    *)
(* the control loop terminates: after that tick's step it leaves the loop  *)
(* instead of ticking again.                                               *)
(***************************************************************************)
C5_ErrorEndsLoop ==
    [][(ctrl_pc = "step" /\ stop) => ctrl_pc' # "handle_mech"]_vars

(***************************************************************************)
(* C6.  When the poll of the command socket ends in a decode failure or a  *)
(* transport error, no reply is sent, no demand is applied (no position    *)
(* setpoint changes), and when handle_mech returns every drive motor's     *)
(* velocity setpoint is zero.                                              *)
(***************************************************************************)
C6_ErrorStopsVehicle ==
    [][(MechRecvAttempt /\ stop')
        => (/\ mech_out' = mech_out
            /\ str_pos' = str_pos
            /\ drv_pos' = drv_pos
            /\ mech_dems' = None
            /\ ctrl_pc' = "handle_cam_req"
            /\ \A i \in MotorIdx : drv_vel'[i] = 0)]_vars

\* A command set the wheels turning, then a failed poll stopped them.
C6_Witness ==
    /\ stop
    /\ ctrl_pc = "handle_cam_req"
    /\ Len(mech_out) = 1
    /\ drv_pos[0] = "inf"
    /\ \A i \in MotorIdx : drv_vel[i] = 0

(***************************************************************************)
(* C7.  A command in which pos_rad or speed_rads is absent is accepted:    *)
(* the demands under the key that is present are applied and the control   *)
(* loop keeps running.                                                     *)
(***************************************************************************)
C7_AbsentKeyAccepted ==
    [][(/\ ctrl_pc = "mech_actuate"
        /\ mech_dems.kind = "dict"
        /\ ~(mech_dems.has_pos /\ mech_dems.has_spd))
        => (/\ ctrl_pc' # "crashed"
            /\ \A k \in 1..Len(mech_dems.spd) :
                 mech_dems.spd[k][1] = <<"Drv", "FL">>
                   => drv_vel'[0] = mech_dems.spd[k][2])]_vars

(***************************************************************************)
(* C8.  Shutdown ordering: the sentinel is in the pipe, or has been taken  *)
(* from it, only after the tick loop has ended, and run has not returned   *)
(* while the camera process is still running.                              *)
(***************************************************************************)
C8_ShutdownOrdering ==
    /\ (\E i \in 1..Len(pipe_to_relay) : IsStop(pipe_to_relay[i])) => StopSent
    /\ relay_pc = "done" => StopSent
    /\ ctrl_pc = "done" => RelayExited

\* run has waited for the camera process and returned.
C8_Witness == ctrl_pc = "done" /\ relay_pc = "done" /\ pipe_closed

(***************************************************************************)
(* C9.  Once the sentinel has been sent the camera process eventually      *)
(* exits and run returns, so both processes terminate; a camera process    *)
(* that takes the sentinel from the pipe, with or without a request        *)
(* awaiting its frames, leaves its loop and closes the pipe in that step.  *)
(***************************************************************************)
C9_SentinelEndsRelay ==
    /\ StopSent ~> (RelayExited /\ ctrl_pc = "done")
    /\ [][(/\ relay_pc = "poll"
           /\ pipe_to_relay # <<>>
           /\ pipe_to_relay[1] = StopMsg
           /\ pipe_to_relay' = Tail(pipe_to_relay))
           => (relay_pc' = "done" /\ pipe_closed')]_vars
    /\ [](pipe_closed <=> relay_pc = "done")

\* The sentinel arrived while a request was awaiting its frames; both
\* processes have ended.
C9_Witness ==
    /\ relay_pc = "done"
    /\ pipe_closed
    /\ handling_req
    /\ ctrl_pc = "done"

(***************************************************************************)
(* C10.  While neither process terminates, a well-formed camera request    *)
(* that is queued while an earlier one awaits its frames is not taken from *)
(* the socket before the reply to the earlier one has been sent, and is    *)
(* then eventually accepted, forwarded and replied to; a request is        *)
(* accepted only when every request accepted before has been replied to.   *)
(***************************************************************************)
WellFormed(cam_req) ==
    /\ cam_req.kind = "dict"
    /\ cam_req.has_cams
    /\ cam_req.has_fmt
    /\ \A i \in 1..Len(cam_req.cameras) : cam_req.cameras[i] \in Cameras
    /\ cam_req.format.name \in SupportedFormats

Terminated == ~ControlTicking \/ RelayExited

PendingBehind(k) ==
    /\ handling_req
    /\ cam_in # <<>>
    /\ WellFormed(cam_in[1])
    /\ CamAccepted = k

C10_SecondRequestServedInOrder ==
    /\ \A k \in 1..MaxMsgs :
         PendingBehind(k) ~> (Len(cam_out) >= k + 1 \/ Terminated)
    /\ [][CamAccepted' # CamAccepted
            => (~handling_req /\ Len(cam_out) = CamAccepted)]_vars
    /\ [][(handling_req /\ cam_out' = cam_out) => CamAccepted' = CamAccepted]_vars

\* After one full round trip, a request awaits its frames and a well-formed
\* one is queued behind it.
C10_Witness ==
    /\ PendingBehind(2)
    /\ Len(cam_out) = 1
    /\ ~Terminated

(***************************************************************************)
(* Reading a demand: the ids it names and what it asks of each motor.      *)
(***************************************************************************)

\* The ids named under both keys of a demand.
IdsOf(dems) ==
    {dems.pos[k][1] : k \in 1..Len(dems.pos)} \cup
    {dems.spd[k][1] : k \in 1..Len(dems.spd)}

AllKnown(dems) == IdsOf(dems) \subseteq KnownActIds

\* Steer motor i is named under pos_rad with value v.
AsksPosition(dems, i, v) ==
    \E k \in 1..Len(dems.pos) :
        /\ dems.pos[k][1] = <<"Str", Wheels[i + 1]>>
        /\ dems.pos[k][2] = v

\* Drive motor i is named under speed_rads with value v.
AsksSpeed(dems, i, v) ==
    \E k \in 1..Len(dems.spd) :
        /\ dems.spd[k][1] = <<"Drv", Wheels[i + 1]>>
        /\ dems.spd[k][2] = v

Values == {0, 1, 2}

\* Every known steer and drive id of the demand has taken effect in the
\* primed setpoints.
KnownIdsApplied(dems) ==
    \A i \in MotorIdx : \A v \in Values :
        /\ AsksPosition(dems, i, v) => str_pos'[i] = v
        /\ AsksSpeed(dems, i, v) => (drv_vel'[i] = v /\ drv_pos'[i] = "inf")

\* A step of run that executes actuate_mech_dems.
ActuateStep == ctrl_pc = "mech_actuate" /\ ctrl_pc' # "mech_actuate"

(***************************************************************************)
(* C11.  An actuator id outside the known id set, also one that starts     *)
(* with Str or Drv, is silently ignored: applying the demand raises        *)
(* nothing, the known ids of the same message are applied, the setpoints   *)
(* of motors the message does not name are unchanged and the control loop  *)
(* keeps running.                                                          *)
(***************************************************************************)
C11_UnknownIdIgnored ==
    [][(/\ ActuateStep
        /\ mech_dems.kind = "dict"
        /\ mech_dems.has_pos
        /\ mech_dems.has_spd
        /\ ~AllKnown(mech_dems))
        => (/\ ctrl_pc' # "crashed"
            /\ KnownIdsApplied(mech_dems))]_vars

(***************************************************************************)
(* C12.  When a frame bundle names a format the encoder cannot write, the  *)
(* camera process does not crash: it sends the client a reply (the error), *)
(* returns to idle and keeps serving.                                      *)
(***************************************************************************)
C12_UnsupportedFormatReplied ==
    [][(/\ relay_pc = "poll"
        /\ pipe_to_relay # <<>>
        /\ pipe_to_relay[1].type = "dict"
        /\ pipe_to_relay[1].format.name \notin SupportedFormats
        /\ pipe_to_relay' = Tail(pipe_to_relay))
        => (/\ relay_pc' # "crashed"
            /\ Len(cam_out') = Len(cam_out) + 1
            /\ ~handling_req')]_vars

(***************************************************************************)
(* C13.  Errors on the camera path are not fatal: whatever a camera client *)
(* sends, neither process terminates because of it and the setpoints stay  *)
(* as they are; a request that fails to decode is dropped, nothing is      *)
(* forwarded and the camera process stays idle.                            *)
(***************************************************************************)
C13_CameraErrorsNotFatal ==
    /\ [][ctrl_pc = "handle_cam_req"
            => (ctrl_pc' # "crashed" /\ motorVars' = motorVars)]_vars
    /\ [][CamRecvAttempt
            => (relay_pc' # "crashed" /\ motorVars' = motorVars)]_vars
    /\ [][(CamRecvAttempt /\ CamAccepted' # CamAccepted
             /\ cam_in[1].kind = "garbage")
            => (pipe_to_ctrl' = pipe_to_ctrl /\ ~handling_req')]_vars

(***************************************************************************)
(* PhobosRoverController.stop on its own: the motors start with any of a   *)
(* range of setpoints and stop is called, as handle_mech calls it under    *)
(* `if stop:`, any number of times.                                        *)
(***************************************************************************)
StrPosStates ==
    { [i \in MotorIdx |-> 0],
      [i \in MotorIdx |-> IF i = 1 THEN 1 ELSE 0],
      [i \in MotorIdx |-> 2] }

DrvPosStates ==
    { [i \in MotorIdx |-> "zero"],
      [i \in MotorIdx |-> IF i < 3 THEN "inf" ELSE "zero"],
      [i \in MotorIdx |-> "inf"] }

StopInit ==
    /\ ctrl_pc = "handle_mech"
    /\ run_controller = TRUE
    /\ mech_dems = None
    /\ stop = FALSE
    /\ str_pos \in StrPosStates
    /\ drv_pos \in DrvPosStates
    /\ drv_vel \in [MotorIdx -> Values]
    /\ mech_in = <<>>
    /\ mech_sending = FALSE
    /\ mech_out = <<>>
    /\ cmds_sent = 0
    /\ relay_pc = "poll"
    /\ handling_req = FALSE
    /\ cam_in = <<>>
    /\ cam_sending = FALSE
    /\ cam_out = <<>>
    /\ cams_sent = 0
    /\ cam_fwd = 0
    /\ pipe_to_ctrl = <<>>
    /\ pipe_to_relay = <<>>
    /\ pipe_closed = FALSE

CallStop ==
    /\ ctrl_pc = "handle_mech"
    /\ stop' = TRUE
    /\ drv_vel' = Stop(drv_vel)
    /\ UNCHANGED <<ctrl_pc, run_controller, mech_dems, str_pos, drv_pos,
                   mech_in, mech_sending, mech_out, cmds_sent, camSockVars,
                   relayVars, pipeVars>>

StopSpec == StopInit /\ [][CallStop]_vars

(***************************************************************************)
(* C14.  stop, called from any actuator state, leaves every one of the six *)
(* drive motors with velocity setpoint zero, leaves the steering position  *)
(* setpoints and the drive position setpoints as they were, and a second   *)
(* call changes nothing.                                                   *)
(***************************************************************************)
C14_StopZeroesDrives ==
    /\ [](stop => \A i \in MotorIdx : drv_vel[i] = 0)
    /\ [][stop' => (str_pos' = str_pos /\ drv_pos' = drv_pos)]_vars
    /\ [][stop => motorVars' = motorVars]_vars

\* stop has been called on a rover that was steering and in rotation mode.
C14_Witness ==
    /\ stop
    /\ \A i \in MotorIdx : drv_vel[i] = 0
    /\ str_pos[1] = 1
    /\ drv_pos[0] = "inf"
    /\ drv_pos[5] = "zero"

\* Every motor the demand does not ask anything of keeps its setpoints.
UnnamedUnchanged(dems) ==
    \A i \in MotorIdx :
        /\ (\A v \in Values : ~AsksPosition(dems, i, v))
             => str_pos'[i] = str_pos[i]
        /\ (\A v \in Values : ~AsksSpeed(dems, i, v))
             => (drv_vel'[i] = drv_vel[i] /\ drv_pos'[i] = drv_pos[i])

(***************************************************************************)
(* C15.  After actuate_mech_dems on a demand whose ids are all known, each *)
(* steering id named under pos_rad has the requested position setpoint,    *)
(* each drive id named under speed_rads has the requested velocity         *)
(* setpoint and the unbounded position setpoint, every other id is a       *)
(* no-op and every motor not named keeps its setpoints.                    *)
(***************************************************************************)
C15_ApplySetsNamedSetpoints ==
    [][(ActuateStep /\ mech_dems.kind = "dict" /\ AllKnown(mech_dems))
        => (KnownIdsApplied(mech_dems) /\ UnnamedUnchanged(mech_dems))]_vars

(***************************************************************************)
(* The order of one tick of the while loop of run (lines 157-167).         *)
(***************************************************************************)
\* The positions run can move to from position pc.
TickSucc(pc) ==
    CASE pc = "handle_mech"    -> {"mech_send", "handle_cam_req"}
      [] pc = "mech_send"      -> {"mech_actuate"}
      [] pc = "mech_actuate"   -> {"handle_cam_req", "crashed"}
      [] pc = "handle_cam_req" -> {"step", "crashed"}
      [] pc = "step"           -> {"handle_mech", "send_stop"}
      [] pc = "send_stop"      -> {"join"}
      [] pc = "join"           -> {"done"}
      [] OTHER                 -> {}

\* C16: every tick does, in this order, at most one receive on the command
\* socket (taking at most one command), at most one receive on the pipe
\* (taking at most one camera request) and then one simulation step: a
\* command is taken only by the handle_mech step, a request only by the
\* handle_cam_req step, the only way back to handle_mech is through step,
\* and the only way on from handle_cam_req is step (or the exception that
\* ends run), whether or not anything was pending.
C16_TickOrder ==
    [][/\ ctrl_pc' # ctrl_pc => ctrl_pc' \in TickSucc(ctrl_pc)
       /\ MechAccepted' # MechAccepted =>
            /\ MechRecvAttempt
            /\ MechAccepted' = MechAccepted + 1
       /\ pipe_to_ctrl' # pipe_to_ctrl /\ Len(pipe_to_ctrl') <= Len(pipe_to_ctrl) =>
            /\ ctrl_pc = "handle_cam_req"
            /\ ctrl_pc' \in {"step", "crashed"}
            /\ pipe_to_ctrl' = Tail(pipe_to_ctrl)
       /\ ctrl_pc' = "handle_mech" /\ ctrl_pc # "handle_mech" => ctrl_pc = "step"
       /\ ctrl_pc = "handle_cam_req" /\ pipe_to_ctrl = <<>> /\ ctrl_pc' # ctrl_pc =>
            ctrl_pc' = "step"]_vars

\* Two commands were taken and acknowledged, a camera request was serviced,
\* and run is at the simulation step.
C16_Witness ==
    /\ ctrl_pc = "step"
    /\ MechAccepted = 2
    /\ Len(mech_out) = 2
    /\ Bundles(pipe_to_relay) = 1

(***************************************************************************)
(* The pipe between the two processes.                                     *)
(***************************************************************************)
\* A step of run that takes a request from the pipe.
TakesRequest ==
    /\ ctrl_pc = "handle_cam_req"
    /\ pipe_to_ctrl # <<>>
    /\ pipe_to_ctrl' = Tail(pipe_to_ctrl)

\* C17: run sends a frame bundle only in the step that takes a request from
\* the pipe, one bundle for that request (none only if handle_cam_req raises
\* and ends run); so the pipe holds at most one message other than 'STOP'
\* over both directions, it holds one only while the camera process has
\* handling_req set, and the camera process sends a reply to its client only
\* while handling_req is set.
C17_OneBundlePerRequest ==
    /\ [][Bundles(pipe_to_relay') > Bundles(pipe_to_relay) => TakesRequest]_vars
    /\ [][TakesRequest =>
            \/ /\ ctrl_pc' = "step"
               /\ Bundles(pipe_to_relay') = Bundles(pipe_to_relay) + 1
            \/ /\ ctrl_pc' = "crashed"
               /\ pipe_to_relay' = pipe_to_relay]_vars
    /\ [](Len(pipe_to_ctrl) + Bundles(pipe_to_relay) <= 1)
    /\ [](InFlight >= 1 => handling_req)
    /\ [][Len(cam_out') > Len(cam_out) => handling_req]_vars

\* The bundle for a request naming two cameras is on its way to the camera
\* process.
C17_Witness ==
    /\ handling_req
    /\ pipe_to_ctrl = <<>>
    /\ pipe_to_relay # <<>>
    /\ pipe_to_relay[1].type = "dict"
    /\ Len(pipe_to_relay[1].cams) = 2

(***************************************************************************)
(* Shutdown and the order of the pipe.                                     *)
(***************************************************************************)
\* Requests the camera process forwarded and has not replied to.
Unreplied == cam_fwd - Len(cam_out)

\* C18: the pipe delivers in order, so a frame bundle sent before 'STOP' is
\* taken and replied to before the camera process takes 'STOP': when the
\* camera process has left its loop through 'STOP', no bundle is left in the
\* pipe and the only request without a reply is one still waiting in the
\* pipe for run, which never serviced it.
C18_BundleBeforeSentinel ==
    /\ [][pipe_to_relay' # pipe_to_relay /\ Len(pipe_to_relay') <= Len(pipe_to_relay)
            => pipe_to_relay' = Tail(pipe_to_relay)]_vars
    /\ [][(relay_pc # "done" /\ relay_pc' = "done") =>
            /\ pipe_to_relay[1] = StopMsg
            /\ Bundles(pipe_to_relay) = 0
            /\ Unreplied = Len(pipe_to_ctrl)]_vars
    /\ [](relay_pc = "done" =>
            /\ Bundles(pipe_to_relay) = 0
            /\ Unreplied = Len(pipe_to_ctrl)
            /\ Unreplied \in {0, 1})

\* The camera process has left through 'STOP' after replying to the first
\* request; the second, forwarded after run's last tick, has no reply.
C18_Witness ==
    /\ relay_pc = "done"
    /\ cam_fwd = 2
    /\ Len(cam_out) = 1
    /\ Len(pipe_to_ctrl) = 1

(***************************************************************************)
(* Messages taken from the mechanisms socket without a reply.              *)
(***************************************************************************)
\* A step of handle_mech in which recv_string returned a message.
MechReceived == MechRecvAttempt /\ MechAccepted' = MechAccepted + 1

\* C19: every message received on the mechanisms socket has, in that tick,
\* exactly one of two outcomes: handle_mech goes on to send "DemsOk", or
\* stop() is called; none is taken with neither.
C19_AckOrStop ==
    [][MechReceived =>
         \/ ctrl_pc' = "mech_send" /\ ~stop'
         \/ ctrl_pc' # "mech_send" /\ stop']_vars

\* The message at the head of the mechanisms socket decodes to a demand.
DemandPending ==
    /\ mech_in # <<>>
    /\ ~JsonLoads(mech_in[1]).raised
    /\ JsonLoads(mech_in[1]).val # None

\* C20: after a message was received and not acknowledged, the mechanisms
\* socket still makes progress: a receive attempted while a well-formed
\* command is pending takes it and goes on to acknowledge it, and stop() is
\* not called in that tick.
C20_ChannelRecovers ==
    [][(MechRecvAttempt /\ DemandPending) =>
         /\ MechReceived
         /\ ctrl_pc' = "mech_send"
         /\ ~stop']_vars

====
